---- MODULE Spec2Model ----
(***************************************************************************)
(* Model of read_data.py: the Jura Bluetooth reader.                       *)
(*   BtEncoder    - keyed nibble cipher and brute-force key recovery       *)
(*   JuraEncoder  - 4-byte character codec                                 *)
(*   module level - the session: connect, recover key, read status,        *)
(*                  alerts, statistics, maintenance counters               *)
(* Byte strings are sequences of integers 0..255, Python str values are    *)
(* sequences of one-character strings (hex text) or of code points         *)
(* (letters), bitarrays are sequences of 0/1.                              *)
(***************************************************************************)
EXTENDS Integers, Sequences, FiniteSets, TLC

VARIABLES
    pc,          \* position of the running script / of the call under test
    key_dec,     \* module variable key_dec (hex text, or None)
    data,        \* the raw payload last read from the device (parsed bytes)
    decoded,     \* module variable decoded
    sent,        \* the encoded command last written to the device (hex text)
    alerts,      \* module variable alerts (extract_alerts)
    products,    \* module variable products (extract_products)
    cleaning,    \* module variables cleaning_count and cleaning_pct
    log,         \* the lines logging.info has emitted, in order
    letter,      \* argument of JuraEncoder.tojura
    hex,         \* the hex flag of tojura / fromjura
    jura,        \* a wire block: result of tojura, argument of fromjura
    out,         \* result of fromjura
    initial,     \* setup_connection's local data: the first status read
    plain,       \* the payload the device holds before it encodes it
    device_key,  \* the key the device encodes with (hex text)
    recoveries   \* number of bruteforce_key calls made so far

vars == <<pc, key_dec, data, decoded, sent, alerts, products, cleaning, log,
          letter, hex, jura, out, initial, plain, device_key, recoveries>>

codecVars == <<letter, hex, jura, out>>
keyVars   == <<key_dec, initial, device_key, recoveries>>
tableVars == <<alerts, products, cleaning>>

----------------------------------------------------------------------------
(* Bounds of the model *)

MaxLen == 9
MaxStatLen == 5
MaxAlertLen == 2
MaxWire == 5

----------------------------------------------------------------------------
(* Python values *)

None == <<"None">>

\* A name that is not bound yet
Unbound == <<"unbound">>

Byte == 0..255

HexDigits == <<"0","1","2","3","4","5","6","7","8","9","a","b","c","d","e","f">>

\* "%02x" % d  and  f"{key:02x}"
Fmt02x(d) == <<HexDigits[(d \div 16) + 1], HexDigits[(d % 16) + 1]>>

HexUpper == <<"0","1","2","3","4","5","6","7","8","9","A","B","C","D","E","F">>

\* The value of one hex digit, in either case, as int(s, 16) reads it
HexVal(ch) == (CHOOSE i \in 1..16 : HexDigits[i] = ch \/ HexUpper[i] = ch) - 1

\* int(s, 16) for a string of hex digits
RECURSIVE IntHex(_)
IntHex(s) ==
    IF s = <<>> THEN 0
    ELSE 16 * IntHex(SubSeq(s, 1, Len(s) - 1)) + HexVal(s[Len(s)])

----------------------------------------------------------------------------
(* BtEncoder *)

numbers1 == <<14, 4, 3, 2, 1, 13, 8, 11, 6, 15, 12, 7, 10, 5, 0, 9>>
numbers2 == <<10, 6, 13, 12, 14, 11, 1, 9, 15, 7, 0, 5, 3, 2, 4, 8>>

mod256(i) == i % 256

\* A cipher that leaves out the last table lookup.
shuffleTwoRounds(dataNibble, nibbleCount, keyLeftNibbel, keyRightNibbel) ==
    LET i5   == mod256(nibbleCount \div 16)
        tmp1 == numbers1[(mod256(dataNibble + nibbleCount + keyLeftNibbel) % 16) + 1]
        tmp2 == numbers2[(mod256(tmp1 + keyRightNibbel + i5 - nibbleCount - keyLeftNibbel) % 16) + 1]
    IN  mod256(tmp2 - nibbleCount - keyLeftNibbel) % 16

shuffle(dataNibble, nibbleCount, keyLeftNibbel, keyRightNibbel) ==
    LET i5   == mod256(nibbleCount \div 16)
        tmp1 == numbers1[(mod256(dataNibble + nibbleCount + keyLeftNibbel) % 16) + 1]
        tmp2 == numbers2[(mod256(tmp1 + keyRightNibbel + i5 - nibbleCount - keyLeftNibbel) % 16) + 1]
        tmp3 == numbers1[(mod256(tmp2 + keyLeftNibbel + nibbleCount - keyRightNibbel - i5) % 16) + 1]
    IN  mod256(tmp3 - nibbleCount - keyLeftNibbel) % 16

\* encDecBytes for a key that is hex text; int(None, 16) raises TypeError and
\* the callers branch on that before they use this operator.
encDecBytes(d, key) ==
    LET k              == IntHex(key)
        keyLeftNibbel  == k \div 16
        keyRightNibbel == k % 16
    IN  [i \in 1..Len(d) |->
            LET nibbelCount == 2 * (i - 1)
            IN  16 * shuffle(d[i] \div 16, nibbelCount, keyLeftNibbel, keyRightNibbel)
                + shuffle(d[i] % 16, nibbelCount + 1, keyLeftNibbel, keyRightNibbel)]

----------------------------------------------------------------------------
(* The cipher on its own: a payload is encoded, then the result decoded. *)

\* Payloads of n bytes that start at byte a and step by s.
Ramp(n, a, s) == [i \in 1..n |-> (a + (i - 1) * s) % 256]

CipherPayloads ==
    {Ramp(n, 17 * d, s) : n \in 0..MaxLen, d \in 0..15, s \in {0, 1}}

NoLists == [count |-> <<>>, pct |-> <<>>]

Idle ==
    /\ sent = <<>> /\ alerts = <<>> /\ products = <<>> /\ cleaning = NoLists
    /\ log = <<>> /\ letter = <<>> /\ hex = 0 /\ jura = <<>> /\ out = <<>>
    /\ initial = <<>> /\ device_key = Unbound /\ recoveries = 0

InitCipher ==
    /\ pc = "payload"
    /\ key_dec \in {Fmt02x(k) : k \in Byte}
    /\ plain \in CipherPayloads
    /\ data = <<>>
    /\ decoded = <<>>
    /\ Idle

Encode ==
    /\ pc = "payload"
    /\ data' = encDecBytes(plain, key_dec)
    /\ pc' = "encoded"
    /\ UNCHANGED <<decoded, sent, log, plain, keyVars, tableVars, codecVars>>

Decode ==
    /\ pc = "encoded"
    /\ decoded' = encDecBytes(data, key_dec)
    /\ pc' = "decoded"
    /\ UNCHANGED <<data, sent, log, plain, keyVars, tableVars, codecVars>>

NextCipher == Encode \/ Decode

SpecCipher == InitCipher /\ [][NextCipher]_vars

\* C1: for every key and payload, applying encDecBytes with the key to
\* encDecBytes(payload, key) gives the payload back; each call counts its
\* nibbles from 0.
CipherRoundTrip == pc = "decoded" => decoded = plain

\* A round trip has run on a payload long enough for the nibble count to
\* pass 16, and the wire bytes differ from the payload.
CipherRoundTripDone ==
    /\ pc = "decoded"
    /\ Len(plain) = MaxLen
    /\ data # plain
    /\ decoded = plain

----------------------------------------------------------------------------
(* BtEncoder.bruteforce_key *)

\* The check of one candidate: result[0] == int(key_hex, 16).
KeyMatches(d, key) ==
    encDecBytes(d, Fmt02x(key))[1] = IntHex(Fmt02x(key))

\* The loop of bruteforce_key over the candidates lo..hi, in ascending order,
\* for a non-empty payload (on an empty one result[0] raises IndexError at
\* the first candidate). The range is searched lower half first, which
\* tries the candidates in the order of the loop and stops at the first match.
RECURSIVE TryKeys(_, _, _)
TryKeys(d, lo, hi) ==
    IF lo = hi
    THEN (IF KeyMatches(d, lo) THEN Fmt02x(lo) ELSE None)
    ELSE LET mid   == (lo + hi) \div 2
             lower == TryKeys(d, lo, mid)
         IN  IF lower # None THEN lower ELSE TryKeys(d, mid + 1, hi)

\* A search that runs through the candidates from 255 down.
RECURSIVE TryKeysDown(_, _, _)
TryKeysDown(d, lo, hi) ==
    IF lo = hi
    THEN (IF KeyMatches(d, lo) THEN Fmt02x(lo) ELSE None)
    ELSE LET mid   == (lo + hi) \div 2
             upper == TryKeysDown(d, mid + 1, hi)
         IN  IF upper # None THEN upper ELSE TryKeysDown(d, lo, mid)

bruteforce_key_descending(d) == TryKeysDown(d, 0, 255)

\* A search that falls back to key 00 when no candidate matches.
bruteforce_key_default(d) ==
    IF TryKeys(d, 0, 255) = None THEN Fmt02x(0) ELSE TryKeys(d, 0, 255)

bruteforce_key(d) == TryKeys(d, 0, 255)

----------------------------------------------------------------------------
(* Statistics: reassembly and logging *)

RECURSIVE JoinHex(_)
JoinHex(s) == IF s = <<>> THEN <<>> ELSE Fmt02x(Head(s)) \o JoinHex(Tail(s))

Min(a, b) == IF a < b THEN a ELSE b

\* [int("".join(["%02x" % d for d in decoded[i:i+w]]), 16)
\*      for i in range(0, len(decoded), w)]
Reassemble(dec, w) ==
    [j \in 1..((Len(dec) + w - 1) \div w) |->
        IntHex(JoinHex(SubSeq(dec, (j - 1) * w + 1, Min(j * w, Len(dec)))))]

Line(kind, idx, name, value) ==
    [kind |-> kind, idx |-> idx, name |-> name, value |-> value]

\* next((product for product in products if product['Code'] == code), None)
RECURSIVE FindProduct(_, _)
FindProduct(prods, code) ==
    IF prods = <<>> THEN <<>>
    ELSE IF Head(prods).Code = code THEN <<Head(prods)>>
    ELSE FindProduct(Tail(prods), code)

\* A report that prints the field as it is.
NoNormalize(byte) == byte

\* The value log_statistics prints for a field.
Normalize(byte) == IF byte = 65535 THEN 0 ELSE byte

\* log_statistics: the lines for the fields from index i on.
RECURSIVE StatLines(_, _, _)
StatLines(dec, prods, i) ==
    IF i >= Len(dec) THEN <<>>
    ELSE LET product == FindProduct(prods, i)
         IN  (IF product # <<>>
              THEN <<Line("product", i, product[1].Name, Normalize(dec[i + 1]))>>
              ELSE <<>>)
             \o StatLines(dec, prods, i + 1)

log_statistics(dec, prods) == StatLines(dec, prods, 0)

\* log_maintenance: one line per label that has a value.
log_maintenance(dec, maintenance_list, label) ==
    [i \in 1..Min(Len(maintenance_list), Len(dec)) |->
        Line(label, i - 1, maintenance_list[i], dec[i])]

----------------------------------------------------------------------------
(* Alerts *)

NoName == "None"

AlertNames == <<"a0", "a1", "a2", "a3", "a4", "a5", "a6", "a7", "a8", "a9",
                "a10", "a11", "a12", "a13", "a14", "a15", "a16">>

Max(S) == CHOOSE x \in S : \A y \in S : y <= x

\* extract_alerts for the ALERT elements with the bits in the set bits (a
\* non-empty set: max() of no elements raises ValueError).
extract_alerts(bits) ==
    [i \in 1..(Max(bits) + 1) |->
        IF (i - 1) \in bits THEN AlertNames[i] ELSE NoName]

\* (decoded[offset_abs] >> offset_byte) & 0b1
BitActive(dec, i) ==
    LET offset_abs  == (i \div 8) + 1
        offset_byte == 7 - (i % 8)
    IN  ((dec[offset_abs + 1] \div (2 ^ offset_byte)) % 2) = 1

ScanBits(dec) == IF Len(dec) = 0 THEN 0 ELSE (Len(dec) - 1) * 8

\* The scan loop from bit i on: the lines it logs, and whether alerts[i]
\* raised IndexError (the loop ends there).
RECURSIVE ScanFrom(_, _, _)
ScanFrom(dec, table, i) ==
    IF i >= ScanBits(dec) THEN [lines |-> <<>>, error |-> FALSE]
    ELSE IF ~BitActive(dec, i) THEN ScanFrom(dec, table, i + 1)
    ELSE IF i >= Len(table) THEN [lines |-> <<>>, error |-> TRUE]
    ELSE LET rest == ScanFrom(dec, table, i + 1)
         IN  [lines |-> <<Line("alert", i, table[i + 1], 1)>> \o rest.lines,
              error |-> rest.error]

AlertScan(dec, table) == ScanFrom(dec, table, 0)

----------------------------------------------------------------------------
(* The statistics steps on their own: the decoded bytes of a statistics    *)
(* read are reassembled and logged (lines 274-279, 285, 291-292).          *)

StatBytes == {0, 5, 255}

RECURSIVE SeqsUpTo(_, _)
SeqsUpTo(S, n) ==
    IF n = 0 THEN {<<>>}
    ELSE LET shorter == SeqsUpTo(S, n - 1)
         IN  shorter \cup {Append(q, x) : q \in {r \in shorter : Len(r) = n - 1}, x \in S}

ProductTables ==
    { <<[Code |-> 0, Name |-> "Espresso"], [Code |-> 1, Name |-> "Coffee"]>>,
      <<[Code |-> 1, Name |-> "Coffee"], [Code |-> 1, Name |-> "Cappuccino"]>> }

LabelLists ==
    { [count |-> <<"cleaning">>, pct |-> <<"cleaning", "decalc", "filter">>],
      [count |-> <<"cleaning", "decalc", "filter">>, pct |-> <<"decalc">>] }

InitStats ==
    /\ pc = "decoded"
    /\ plain \in SeqsUpTo(StatBytes, MaxStatLen)
    /\ decoded = plain
    /\ products \in ProductTables
    /\ cleaning \in LabelLists
    /\ key_dec = Unbound /\ data = <<>> /\ sent = <<>> /\ alerts = <<>>
    /\ log = <<>> /\ letter = <<>> /\ hex = 0 /\ jura = <<>> /\ out = <<>>
    /\ initial = <<>> /\ device_key = Unbound /\ recoveries = 0

\* Lines 274-279: 3-byte product counts, the total, the product report.
\* decoded[0] raises IndexError when there is no field.
ProductCount ==
    /\ pc = "decoded"
    /\ decoded' = Reassemble(decoded, 3)
    /\ IF decoded' = <<>>
       THEN pc' = "IndexError" /\ log' = log
       ELSE /\ pc' = "products"
            /\ log' = log \o <<Line("total", 0, "Total coffee", decoded'[1])>>
                          \o log_statistics(decoded', products)
    /\ UNCHANGED <<data, sent, plain, keyVars, tableVars, codecVars>>

\* Line 285: the percent bytes are logged as they are.
MaintenancePercents ==
    /\ pc = "decoded"
    /\ log' = log \o log_maintenance(decoded, cleaning.pct, "Cleaning percent")
    /\ pc' = "percents"
    /\ UNCHANGED <<data, decoded, sent, plain, keyVars, tableVars, codecVars>>

\* Lines 291-292: 2-byte cleaning counts.
CleaningCount ==
    /\ pc = "decoded"
    /\ decoded' = Reassemble(decoded, 2)
    /\ log' = log \o log_maintenance(decoded', cleaning.count, "Cleaning count")
    /\ pc' = "counts"
    /\ UNCHANGED <<data, sent, plain, keyVars, tableVars, codecVars>>

NextStats == ProductCount \/ MaintenancePercents \/ CleaningCount

SpecStats == InitStats /\ [][NextStats]_vars

\* The field width of the step that has run.
Width == IF pc = "counts" THEN 2 ELSE 3

Reassembled == pc \in {"products", "counts", "IndexError"}

\* Big-endian value of the w bytes of group j.
RECURSIVE BigEndian(_, _, _)
BigEndian(bytes, from, w) ==
    IF w = 0 THEN 0
    ELSE 256 * BigEndian(bytes, from, w - 1) + bytes[from + w - 1]

\* C5: the reassembled record has floor(n / w) fields, field j the
\* big-endian value of bytes j*w .. j*w+w-1; a shorter trailing group gives
\* no field.
ReassembleDropsTail ==
    Reassembled =>
        /\ Len(decoded) = Len(plain) \div Width
        /\ \A j \in 1..Len(decoded) :
               decoded[j] = BigEndian(plain, (j - 1) * Width + 1, Width)

\* The lines of the report that carry field values.
FieldLines == SelectSeq(log, LAMBDA l : l.kind # "total")

Reported == pc \in {"products", "counts"}

HasProduct(i) == \E n \in 1..Len(products) : products[n].Code = i

----------------------------------------------------------------------------
(* JuraEncoder *)

base_layout == <<0, 1, 0, 1, 1, 0, 1, 1>>

\* bitarray.frombytes / tobytes for one byte, most significant bit first
Bits(b) == [i \in 1..8 |-> (b \div (2 ^ (8 - i))) % 2]

RECURSIVE BitsValue(_)
BitsValue(c) ==
    IF c = <<>> THEN 0 ELSE 2 * BitsValue(SubSeq(c, 1, Len(c) - 1)) + c[Len(c)]

\* str.encode() of one character (UTF-8; no surrogate is drawn)
Utf8(cp) ==
    IF cp < 128 THEN <<cp>>
    ELSE IF cp < 2048 THEN <<192 + (cp \div 64), 128 + (cp % 64)>>
    ELSE IF cp < 65536
         THEN <<224 + (cp \div 4096), 128 + ((cp \div 64) % 64), 128 + (cp % 64)>>
    ELSE <<240 + (cp \div 262144), 128 + ((cp \div 4096) % 64),
           128 + ((cp \div 64) % 64), 128 + (cp % 64)>>

\* c[2:4] + c[0:2] + c[6:8] + c[4:6]
SwapPairs(c) == SubSeq(c, 3, 4) \o SubSeq(c, 1, 2) \o SubSeq(c, 7, 8) \o SubSeq(c, 5, 6)

\* c[4:] + c[:4]
SwapHalves(c) == SubSeq(c, 5, 8) \o SubSeq(c, 1, 4)

\* " ".join of hex tokens (hex_code[:-1] drops the last space)
RECURSIVE JoinSpaced(_)
JoinSpaced(tokens) ==
    IF tokens = <<>> THEN <<>>
    ELSE IF Len(tokens) = 1 THEN tokens[1]
    ELSE tokens[1] \o <<" ">> \o JoinSpaced(Tail(tokens))

\* str.split() of text whose words are set apart by single spaces
RECURSIVE SplitFrom(_, _)
SplitFrom(text, word) ==
    IF text = <<>> THEN (IF word = <<>> THEN <<>> ELSE <<word>>)
    ELSE IF Head(text) = " "
         THEN (IF word = <<>> THEN <<>> ELSE <<word>>) \o SplitFrom(Tail(text), <<>>)
    ELSE SplitFrom(Tail(text), Append(word, Head(text)))

Split(text) == SplitFrom(text, <<>>)

\* tojura for a letter of one character: the four bitarrays, or with hex
\* their hex text.
tojura(l, h) ==
    LET enc   == Utf8(l[1])
        c0    == Bits(enc[Len(enc)])
        c     == SwapHalves(SwapPairs(c0))
        bytes == [i \in 1..4 |->
                    [base_layout EXCEPT ![3] = c[2 * i - 1], ![6] = c[2 * i]]]
    IN  IF h = 1
        THEN JoinSpaced([i \in 1..4 |-> Fmt02x(BitsValue(bytes[i]))])
        ELSE bytes

\* The bitarrays fromjura works on: with hex, the first byte of each word.
WireBytes(bytes, h) ==
    IF h = 1
    THEN LET words == Split(bytes)
         IN  [i \in 1..Len(words) |-> Bits(IntHex(SubSeq(words[i], 1, 2)))]
    ELSE bytes

\* The byte fromjura rebuilds from four bitarrays, before .decode().
fromjuraByte(b) ==
    LET o == [i \in 1..8 |-> IF i % 2 = 1 THEN b[(i + 1) \div 2][3]
                                           ELSE b[i \div 2][6]]
    IN  BitsValue(SwapPairs(SwapHalves(o)))

----------------------------------------------------------------------------
(* The character codec on its own *)

\* Characters: every value 0..255 and some beyond.
CodePoints == (0..255) \cup {937, 8364, 128512}

Letters ==
    {<<>>} \cup {<<cp>> : cp \in CodePoints}
           \cup {<<cp, 65>> : cp \in {66, 233}}

\* Blocks of 0..MaxWire bitarrays, cut from the encodings of two letters.
WireBlocks ==
    {SubSeq(tojura(<<cp>>, 0) \o tojura(<<66>>, 0), 1, n) :
        cp \in {65, 122, 233}, n \in 0..MaxWire}

InitCodec ==
    /\ pc = "call"
    /\ letter \in Letters
    /\ hex \in {0, 1}
    /\ jura = <<>> /\ out = <<>>
    /\ key_dec = Unbound /\ data = <<>> /\ decoded = <<>> /\ sent = <<>>
    /\ alerts = <<>> /\ products = <<>> /\ cleaning = NoLists /\ log = <<>>
    /\ initial = <<>> /\ plain = <<>> /\ device_key = Unbound
    /\ recoveries = 0

\* jura_encoder.tojura(letter, hex)
Tojura ==
    /\ pc = "call"
    /\ IF Len(letter) # 1
       THEN pc' = "tojura.ValueError" /\ jura' = jura
       ELSE pc' = "encoded" /\ jura' = tojura(letter, hex)
    /\ UNCHANGED <<data, decoded, sent, log, plain, letter, hex, out,
                   keyVars, tableVars>>

\* The block (or hex text) a call of fromjura is given.
Receive(block) ==
    /\ pc = "call"
    /\ letter = <<>>
    /\ jura' = IF hex = 1
               THEN JoinSpaced([i \in 1..Len(block) |-> Fmt02x(BitsValue(block[i]))])
               ELSE block
    /\ pc' = "received"
    /\ UNCHANGED <<data, decoded, sent, log, plain, letter, hex, out,
                   keyVars, tableVars>>

\* jura_encoder.fromjura(jura, hex)
Fromjura ==
    /\ pc \in {"encoded", "received"}
    /\ LET b == WireBytes(jura, hex)
       IN  IF Len(b) # 4
           THEN pc' = "fromjura.ValueError" /\ out' = out
           ELSE IF fromjuraByte(b) >= 128
                THEN pc' = "UnicodeDecodeError" /\ out' = out
                ELSE pc' = "decoded" /\ out' = <<fromjuraByte(b)>>
    /\ UNCHANGED <<data, decoded, sent, log, plain, letter, hex, jura,
                   keyVars, tableVars>>

NextCodec == Tojura \/ (\E block \in WireBlocks : Receive(block)) \/ Fromjura

SpecCodec == InitCodec /\ [][NextCodec]_vars

\* C4: for every byte value c, fromjura of the block tojura makes of the
\* character with value c returns that character.
CodecRoundTrip ==
    (/\ Len(letter) = 1 /\ letter[1] \in Byte
     /\ pc \in {"decoded", "UnicodeDecodeError"})
        => pc = "decoded" /\ out = letter

\* C9: tojura raises the length error, and returns nothing, for every input
\* that is not one single-byte character; fromjura does for every input that
\* is not 4 wire bytes.
CodecRejectsLength ==
    /\ pc \in {"encoded", "tojura.ValueError"}
          => (IF Len(letter) = 1 /\ Len(Utf8(letter[1])) = 1
              THEN pc = "encoded"
              ELSE pc = "tojura.ValueError" /\ jura = <<>>)
    /\ pc \in {"decoded", "UnicodeDecodeError", "fromjura.ValueError"}
          => (Len(WireBytes(jura, hex)) # 4
                 <=> (pc = "fromjura.ValueError" /\ out = <<>>))

----------------------------------------------------------------------------
(* The alert table and the alert scan on their own (lines 253, 264-268) *)

AlertBytes == {0, 1, 128, 255}

\* Bit attributes of the ALERT elements of a machine file.
AlertBits == {0, 3, 7, 8, 15}

InitAlert ==
    /\ pc = "xml"
    /\ plain \in SeqsUpTo(AlertBytes, MaxAlertLen + 1)
    /\ decoded = plain
    /\ alerts = <<>>
    /\ key_dec = Unbound /\ data = <<>> /\ sent = <<>> /\ products = <<>>
    /\ cleaning = NoLists /\ log = <<>> /\ letter = <<>> /\ hex = 0
    /\ jura = <<>> /\ out = <<>> /\ initial = <<>> /\ device_key = Unbound /\ recoveries = 0

\* alerts = extract_alerts(root, namespace)
ExtractAlerts(bits) ==
    /\ pc = "xml"
    /\ IF bits = {}
       THEN pc' = "ValueError" /\ alerts' = alerts
       ELSE pc' = "table" /\ alerts' = extract_alerts(bits)
    /\ UNCHANGED <<data, decoded, sent, log, plain, products, cleaning,
                   keyVars, codecVars>>

\* The loop of lines 264-268 over the decoded status bytes.
ScanAlerts ==
    /\ pc = "table"
    /\ LET r == AlertScan(decoded, alerts)
       IN  /\ log' = log \o r.lines
           /\ pc' = IF r.error THEN "IndexError" ELSE "scanned"
    /\ UNCHANGED <<data, decoded, sent, plain, keyVars, tableVars, codecVars>>

NextAlert == (\E bits \in SUBSET AlertBits : ExtractAlerts(bits)) \/ ScanAlerts

SpecAlert == InitAlert /\ [][NextAlert]_vars

\* C7: for every decoded status and every alert table, shorter than the
\* scanned bits or with absent entries, the scan ends without an error, and
\* has gone over all (len - 1) * 8 bits: a line for every active bit the
\* table has an entry for, none for the others.
AlertScanNeverFails ==
    pc \in {"scanned", "IndexError"} =>
        /\ pc = "scanned"
        /\ \A i \in 0..(ScanBits(decoded) - 1) :
               (BitActive(decoded, i) /\ i < Len(alerts))
                   <=> (\E n \in 1..Len(log) : log[n].idx = i)

----------------------------------------------------------------------------
(* The session: the script from setup_connection to the cleaning counts *)

\* [int(x, 16) for x in command.split()]
ParseHex(text) ==
    LET words == Split(text) IN [i \in 1..Len(words) |-> IntHex(words[i])]

\* An encoder that always uses key 00.
encode_command_key00(command, key) ==
    JoinHex(encDecBytes(ParseHex(command), Fmt02x(0)))

encode_command(command, key) == JoinHex(encDecBytes(ParseHex(command), key))

\* "2a 00 01 FF FF", "2a 00 08 01 00", "2a 00 04 01 00"
all_statistics_command == <<"2","a"," ","0","0"," ","0","1"," ","F","F"," ","F","F">>
mnt_pct_command == <<"2","a"," ","0","0"," ","0","8"," ","0","1"," ","0","0">>
mnt_cnt_command == <<"2","a"," ","0","0"," ","0","4"," ","0","1"," ","0","0">>

\* read_data_until_ready returns the first read that has the byte at
\* ready_value_index and whose hex text there differs from value.
Ready(d, ready_value_index, value) ==
    /\ Len(d) >= ready_value_index + 1
    /\ Fmt02x(d[ready_value_index + 1]) # value

\* What the device holds and sends as encDecBytes(payload, device_key); the
\* transport hands on any bytes.
StatusTails == {<<>>, <<0, 61>>}
FirstReads == {<<b>> : b \in Byte}
ForeignKeys == {90}
ModelPayloads == {<<0, 0, 1, 0, 15, 39>>, <<0, 0, 1>>}
AlertPayloads == {<<42, 0, 0>>, <<42, 80, 64>>, <<42, 1, 0>>}
ProductPayloads == {<<>>, <<0, 255, 255, 0, 0, 5, 17, 3>>}
PercentPayloads == {<<90, 100, 7>>}
CountPayloads == {<<255, 255, 0, 5, 17>>, <<1, 2>>}

Machines ==
    { [products |-> <<[Code |-> 0, Name |-> "Espresso"], [Code |-> 1, Name |-> "Coffee"]>>,
       cleaning |-> [count |-> <<"cleaning">>, pct |-> <<"cleaning", "decalc", "filter">>],
       bits     |-> {0, 3, 9}],
      [products |-> <<[Code |-> 1, Name |-> "Coffee"], [Code |-> 1, Name |-> "Cappuccino"]>>,
       cleaning |-> [count |-> <<"cleaning", "decalc", "filter">>, pct |-> <<"decalc">>],
       bits     |-> {1, 15}],
      [products |-> <<>>, cleaning |-> NoLists, bits |-> {}] }

\* The bytes read when the device sends payload p.
Wire(p) == encDecBytes(p, device_key)

InitSession ==
    /\ pc = "start"
    /\ key_dec = Unbound
    /\ data = <<>> /\ decoded = <<>> /\ sent = <<>>
    /\ alerts = <<>> /\ products = <<>> /\ cleaning = NoLists /\ log = <<>>
    /\ letter = <<>> /\ hex = 0 /\ jura = <<>> /\ out = <<>>
    /\ initial = <<>> /\ plain = <<>> /\ device_key = Unbound
    /\ recoveries = 0

\* setup_connection (line 230) when the first status read is d, sent by a
\* device with key k that holds payload p. key_dec and decoded are the
\* function's locals until it returns.
SetupConnection(d, p, k) ==
    /\ pc = "start"
    /\ initial' = d
    /\ plain' = p
    /\ device_key' = k
    /\ recoveries' = recoveries + 1
    /\ IF d = <<>>
       THEN pc' = "IndexError" /\ UNCHANGED <<key_dec, decoded>>
       ELSE /\ key_dec' = bruteforce_key(d)
            /\ IF key_dec' = None
               THEN pc' = "TypeError" /\ UNCHANGED decoded
               ELSE pc' = "model" /\ decoded' = encDecBytes(d, key_dec')
    /\ UNCHANGED <<data, sent, log, tableVars, codecVars>>

\* A device that keeps the protocol: the first byte of its status is its key.
SetupHonest ==
    \E k \in Byte, t \in StatusTails :
        SetupConnection(encDecBytes(<<k>> \o t, Fmt02x(k)), <<k>> \o t, Fmt02x(k))

\* Any first read, the empty one too, from a device that does not.
SetupAny ==
    \E d \in FirstReads \cup {<<>>}, k \in ForeignKeys :
        SetupConnection(d, encDecBytes(d, Fmt02x(k)), Fmt02x(k))

\* Lines 233-254: the model id, the machine file and its tables.
ReadModel(d, machine) ==
    /\ pc = "model"
    /\ Ready(d, 2, <<"3", "d">>)
    /\ data' = d
    /\ IF Len(d) < 6
       THEN pc' = "IndexError" /\ UNCHANGED <<decoded, tableVars>>
       ELSE /\ decoded' = encDecBytes(d, key_dec)
            /\ products' = machine.products
            /\ cleaning' = machine.cleaning
            /\ IF machine.bits = {}
               THEN pc' = "ValueError" /\ alerts' = alerts
               ELSE pc' = "alerts" /\ alerts' = extract_alerts(machine.bits)
    /\ UNCHANGED <<sent, log, plain, keyVars, codecVars>>

\* Lines 258-268: the status read and the alert scan.
GetAlerts(d) ==
    /\ pc = "alerts"
    /\ Ready(d, 2, <<"3", "d">>)
    /\ data' = d
    /\ decoded' = encDecBytes(d, key_dec)
    /\ LET r == AlertScan(decoded', alerts)
       IN  /\ log' = log \o r.lines
           /\ pc' = IF r.error THEN "IndexError" ELSE "products"
    /\ UNCHANGED <<sent, plain, keyVars, tableVars, codecVars>>

\* Lines 272-279: the product counts. (read_and_decode_statistics polls
\* read_stat first and drops what it reads.)
ReadProductCount(d) ==
    /\ pc = "products"
    /\ sent' = encode_command(all_statistics_command, key_dec)
    /\ data' = d
    /\ decoded' = Reassemble(encDecBytes(d, key_dec), 3)
    /\ IF decoded' = <<>>
       THEN pc' = "IndexError" /\ log' = log
       ELSE /\ pc' = "percents"
            /\ log' = log \o <<Line("total", 0, "Total coffee", decoded'[1])>>
                          \o log_statistics(decoded', products)
    /\ UNCHANGED <<plain, keyVars, tableVars, codecVars>>

\* Lines 283-285: the maintenance percents.
ReadMaintenancePercents(d) ==
    /\ pc = "percents"
    /\ sent' = encode_command(mnt_pct_command, key_dec)
    /\ data' = d
    /\ decoded' = encDecBytes(d, key_dec)
    /\ log' = log \o log_maintenance(decoded', cleaning.pct, "Cleaning percent")
    /\ pc' = "counts"
    /\ UNCHANGED <<plain, keyVars, tableVars, codecVars>>

\* Lines 289-292: the cleaning counts.
ReadCleaningCount(d) ==
    /\ pc = "counts"
    /\ sent' = encode_command(mnt_cnt_command, key_dec)
    /\ data' = d
    /\ decoded' = Reassemble(encDecBytes(d, key_dec), 2)
    /\ log' = log \o log_maintenance(decoded', cleaning.count, "Cleaning count")
    /\ pc' = "done"
    /\ UNCHANGED <<plain, keyVars, tableVars, codecVars>>

NextSession ==
    \/ SetupHonest
    \/ SetupAny
    \/ \E p \in ModelPayloads, machine \in Machines : ReadModel(Wire(p), machine)
    \/ \E p \in AlertPayloads : GetAlerts(Wire(p))
    \/ \E p \in ProductPayloads : ReadProductCount(Wire(p))
    \/ \E p \in PercentPayloads : ReadMaintenancePercents(Wire(p))
    \/ \E p \in CountPayloads : ReadCleaningCount(Wire(p))

SpecSession == InitSession /\ [][NextSession]_vars

\* The candidates that pass the check of bruteforce_key on first read d.
Candidates(d) == {c \in Byte : KeyMatches(d, c)}

AfterRecovery == pc \in {"model", "TypeError"}

\* C2: when the device's first status starts with its key k, bruteforce_key
\* returns k, and k is the only candidate that passes the check.
KeyRecoveryUnique ==
    (AfterRecovery /\ Fmt02x(plain[1]) = device_key)
        => /\ key_dec = device_key
           /\ Candidates(initial) = {plain[1]}

\* C3: for a non-empty first read, bruteforce_key returns the smallest
\* candidate that passes the check, and None, which is no key, exactly when
\* no candidate passes.
KeyRecoveryFirstMatch ==
    AfterRecovery =>
        LET passing == Candidates(initial)
        IN  /\ passing = {} <=> key_dec = None
            /\ passing # {} =>
                  /\ IntHex(key_dec) \in passing
                  /\ \A b \in passing : IntHex(key_dec) <= b
                  /\ key_dec = Fmt02x(IntHex(key_dec))
            /\ \A c \in Byte : None # Fmt02x(c)

\* Recovery returned the smallest of several passing candidates.
KeyRecoveryFirstOfSeveral ==
    /\ pc = "model"
    /\ LET passing == Candidates(initial)
       IN  /\ Cardinality(passing) > 1
           /\ \A b \in passing : IntHex(key_dec) <= b

\* C8: when no candidate passes, recovery hands None to setup_connection,
\* the session ends there (int(None, 16) raises TypeError) with no payload
\* encoded or decoded, and no session ever runs on a key that did not pass
\* the check.
KeyNotFoundFatal ==
    /\ AfterRecovery => (Candidates(initial) = {} <=> key_dec = None)
    /\ key_dec = None <=> pc = "TypeError"
    /\ pc = "TypeError" =>
          /\ decoded = <<>> /\ sent = <<>> /\ data = <<>> /\ log = <<>>
          /\ alerts = <<>>
    /\ (key_dec # None /\ key_dec # Unbound) => KeyMatches(initial, IntHex(key_dec))

\* A first read no candidate passes on has ended the session.
KeyNotFoundReached ==
    /\ pc = "TypeError"
    /\ recoveries = 1
    /\ initial # <<>>
    /\ Candidates(initial) = {}
    /\ key_dec = None

\* The bytes of a command, encoded with the session key.
Encoded(command) == JoinHex(encDecBytes(ParseHex(command), key_dec))

\* Every result the session holds was made with key_dec.
SessionKeyUsed ==
    /\ recoveries = IF pc = "start" THEN 0 ELSE 1
    /\ pc = "start" =>
          key_dec = Unbound /\ decoded = <<>> /\ sent = <<>> /\ data = <<>>
    /\ pc = "model" => decoded = encDecBytes(initial, key_dec) /\ sent = <<>>
    /\ pc \in {"alerts", "ValueError", "products"} =>
          decoded = encDecBytes(data, key_dec) /\ sent = <<>>
    /\ pc = "percents" =>
          /\ decoded = Reassemble(encDecBytes(data, key_dec), 3)
          /\ sent = Encoded(all_statistics_command)
    /\ pc = "counts" =>
          /\ decoded = encDecBytes(data, key_dec)
          /\ sent = Encoded(mnt_pct_command)
    /\ pc = "done" =>
          /\ decoded = Reassemble(encDecBytes(data, key_dec), 2)
          /\ sent = Encoded(mnt_cnt_command)

\* key_dec is written by the one recovery only.
KeyWrittenByRecovery ==
    key_dec' # key_dec => (pc = "start" /\ recoveries = 0 /\ recoveries' = 1)

\* C10: in every run key recovery happens once, before any other payload is
\* encoded or decoded; only it writes the session key; every later command
\* encoding and status or statistics decoding uses that key.
SingleKeySession == []SessionKeyUsed /\ [][KeyWrittenByRecovery]_vars

\* A session has run to its end on a recovered key other than 00.
SessionCompleted ==
    /\ pc = "done"
    /\ recoveries = 1
    /\ key_dec # Fmt02x(0)
    /\ sent = Encoded(mnt_cnt_command)
    /\ decoded # <<>>

====
